---- MODULE Spec2Model ----
(***************************************************************************)
(* Model of git-remote-utils:                                              *)
(*   src/src/task.rs    the Reader Pump (input) and the Writer Pump        *)
(*                      (output), paired through a bounded data channel    *)
(*                      and a bounded ack channel (tokio mpsc);            *)
(*   src/src/socket.rs  SocketListener::bind and SocketStream::connect     *)
(*                      iterating over the resolved candidate addresses.   *)
(* The two pumps are separate tasks: every await point of a pump is a      *)
(* step boundary, and so is the end of the writer's loop body, where its   *)
(* binding of the received Arc goes out of scope.                          *)
(***************************************************************************)
EXTENDS Integers, Sequences, FiniteSets, TLC

\* ------------------------------------------------------------------ bounds
\* longest source stream, in bytes
MaxSrcLen == 3
\* largest channel capacity chosen by the caller (capacities are 1..MaxCap)
MaxCap == 2
\* most reads that end with ErrorKind::Interrupted
MaxInterrupts == 1

\* ------------------------------------------------------------- constants
BUFFER_SIZE == 4 * 1024

Byte == {0, 1}
ReadErrs == {"EIO"}
WriteErrs == {"EPIPE", "ENOSPC"}

\* io::Error values: a kind and a message
NoError == [kind |-> "", msg |-> ""]
IoError(e) == [kind |-> "Os", msg |-> e]
NoResult == [ok |-> FALSE, via |-> 0, err |-> NoError]

\* no SocketAddr (accept() has not returned one)
NoAddr == [kind |-> "", named |-> FALSE, name |-> <<>>, res |-> ""]

Min(a, b) == IF a < b THEN a ELSE b

SeqsUpTo(S, n) == UNION {[1..k -> S] : k \in 0..n}

IsPrefix(s, t) == /\ Len(s) <= Len(t)
                  /\ SubSeq(t, 1, Len(s)) = s

\* no Arc<BytesMut> held
NoBuf == [id |-> 0, data |-> <<>>]

AckOk == [ok |-> TRUE, reason |-> ""]
AckErr(e) == [ok |-> FALSE, reason |-> e]

VARIABLES
    \* the source stream and the reader's position in it
    src, pos, interrupts,
    \* input(): the reusable buffer's length, the Arc it kept, its position
    bytesLen, send_bytes, rpc, rresult,
    \* the data channel: queue, capacity, whether each endpoint is alive
    dataCh, dataCap, dataTxOpen, dataRxOpen,
    \* the ack channel
    ackCh, ackCap, ackTxOpen, ackRxOpen,
    \* output(): the Arc it received, the write's result, its position
    wbytes, wres, wpc, wresult,
    \* the destination stream
    dest,
    \* history: buffers sent and acks received by the reader, buffers received
    \* by the writer, the buffer ids the writer sent an ack for, and the reads
    \* the reader issued with the counts (sent, acks received) at each
    nSent, nAckRecv, nBufRecv, ackLog, readLog,
    \* history: the error of the writer's last write_all ("" when it succeeded)
    wioErr,
    \* bind()/connect(): which of the two runs, what to_socket_addrs() gives,
    \* the iterator's position, last_err, the function's position and result,
    \* and (history) the candidates attempted, in order
    sop, resolved, sidx, last_err, spc, sresult, attempts,
    \* the spec string given to to_socket_addrs(), the strings it handed to
    \* net::lookup_host (history), the peer address accept() returned, and
    \* the text Display wrote for it
    specStr, lookups, peer, shown,
    \* the streams: the source gives nothing more and keeps a read pending,
    \* the destination takes nothing more and keeps a write pending
    srcStalled, dstStalled,
    \* the source hands out its bytes in pieces of this size (0: of any size)
    srcChunk

streamVars == <<srcStalled, dstStalled, srcChunk>>

pumpVars == <<src, pos, interrupts, bytesLen, send_bytes, rpc, rresult,
              dataCh, dataCap, dataTxOpen, dataRxOpen,
              ackCh, ackCap, ackTxOpen, ackRxOpen,
              wbytes, wres, wpc, wresult, dest,
              nSent, nAckRecv, nBufRecv, ackLog, readLog, wioErr, streamVars>>

strVars == <<specStr, lookups, peer, shown>>

sockVars == <<sop, resolved, sidx, last_err, spc, sresult, attempts, strVars>>

vars == <<pumpVars, sockVars>>

\* ------------------------------------------------------------- Arc count
\* Arc::strong_count of the buffer with this id: the reader's send_bytes,
\* the clones queued in the data channel, and the writer's binding `bytes`.
StrongCount(id) ==
    (IF send_bytes.id = id THEN 1 ELSE 0)
    + Cardinality({i \in 1..Len(dataCh) : dataCh[i].id = id})
    + (IF wbytes.id = id THEN 1 ELSE 0)

\* Arc::try_unwrap succeeds only for the sole owner
TryUnwrapOk(id) == StrongCount(id) = 1

\* ------------------------------------------------------------------ Init
PumpStart ==
    /\ pos = 0
    /\ interrupts = 0
    /\ bytesLen = BUFFER_SIZE
    /\ send_bytes = NoBuf
    /\ rpc = "read"
    /\ rresult = <<>>
    /\ dataCh = <<>>
    /\ dataCap \in 1..MaxCap
    /\ dataTxOpen = TRUE
    /\ dataRxOpen = TRUE
    /\ ackCh = <<>>
    /\ ackCap \in 1..MaxCap
    /\ ackTxOpen = TRUE
    /\ ackRxOpen = TRUE
    /\ wbytes = NoBuf
    /\ wres = AckOk
    /\ wpc = "recv"
    /\ wresult = <<>>
    /\ dest = <<>>
    /\ nSent = 0
    /\ nAckRecv = 0
    /\ nBufRecv = 0
    /\ ackLog = <<>>
    /\ readLog = <<>>
    /\ wioErr = ""
    /\ srcStalled = FALSE
    /\ dstStalled = FALSE

\* the pair over a short source that hands out pieces of any size
PumpInit ==
    /\ src \in SeqsUpTo(Byte, MaxSrcLen)
    /\ srcChunk = 0
    /\ PumpStart

\* no bind() or connect() is running
SockIdle ==
    /\ sop = "none"
    /\ resolved = [ok |-> TRUE, err |-> NoError, cands |-> <<>>]
    /\ sidx = 0
    /\ last_err = <<>>
    /\ spc = "idle"
    /\ sresult = NoResult
    /\ attempts = <<>>
    /\ specStr = <<>>
    /\ lookups = <<>>
    /\ peer = NoAddr
    /\ shown = <<>>

Init == PumpInit /\ SockIdle

\* ---------------------------------------------------------------- reader
readerLocal == <<src, pos, interrupts, bytesLen, send_bytes, rpc, rresult,
                 nSent, nAckRecv, readLog>>
writerLocal == <<wbytes, wres, wpc, wresult, dest, nBufRecv, ackLog, wioErr>>

\* mutant of ReaderExit: the data sender outlives input() (tx borrowed, not
\* owned), so returning does not close the data channel
ReaderExit_LeakTx(state, msg) ==
    /\ rpc' = state
    /\ rresult' = msg
    /\ send_bytes' = NoBuf
    /\ dataTxOpen' = dataTxOpen
    /\ ackRxOpen' = FALSE
    /\ ackCh' = <<>>

\* input() returns or unwinds: its locals tx, rx, bytes, send_bytes drop.
\* Dropping the ack receiver discards the acks still queued.
ReaderExit(state, msg) ==
    /\ rpc' = state
    /\ rresult' = msg
    /\ send_bytes' = NoBuf
    /\ dataTxOpen' = FALSE
    /\ ackRxOpen' = FALSE
    /\ ackCh' = <<>>

\* the record of one read call: how many buffers were sent and acked then
ReadCall == [sent |-> nSent, acked |-> nAckRecv, len |-> bytesLen]

\* input.read(&mut bytes) returns Ok(0): break, return Ok(())
ReaderReadEof ==
    /\ rpc = "read"
    /\ ~srcStalled
    /\ (pos = Len(src) \/ bytesLen = 0)
    /\ readLog' = Append(readLog, ReadCall)
    /\ ReaderExit("done_ok", <<>>)
    /\ UNCHANGED <<src, pos, interrupts, bytesLen, nSent, nAckRecv,
                   dataCh, dataCap, dataRxOpen, ackCap, ackTxOpen>>
    /\ UNCHANGED <<writerLocal, sockVars, streamVars>>

\* the sizes input.read(&mut bytes) can return: at most the length of the
\* buffer and what is left of the source, and the source's piece size
ReadSizes ==
    LET max == Min(bytesLen, Len(src) - pos)
    IN  IF srcChunk = 0 THEN 1..max
        ELSE IF max = 0 THEN {} ELSE {Min(srcChunk, max)}

\* input.read(&mut bytes) returns Ok(size), size > 0:
\* send_bytes = Arc::new(bytes.split_to(size)), then the send is started
ReaderReadData ==
    /\ rpc = "read"
    /\ ~srcStalled
    /\ \E size \in ReadSizes :
          /\ send_bytes' = [id |-> nSent + 1,
                            data |-> SubSeq(src, pos + 1, pos + size)]
          /\ bytesLen' = bytesLen - size
          /\ pos' = pos + size
    /\ readLog' = Append(readLog, ReadCall)
    /\ rpc' = "send"
    /\ UNCHANGED <<src, interrupts, rresult, nSent, nAckRecv>>
    /\ UNCHANGED <<dataCh, dataCap, dataTxOpen, dataRxOpen,
                   ackCh, ackCap, ackTxOpen, ackRxOpen>>
    /\ UNCHANGED <<writerLocal, sockVars, streamVars>>

\* mutant of ReaderReadInterrupted: no arm for Interrupted, the error ends
\* the reader like any other read error
ReaderReadInterrupted_Fatal ==
    /\ rpc = "read"
    /\ ~srcStalled
    /\ interrupts < MaxInterrupts
    /\ interrupts' = interrupts + 1
    /\ readLog' = Append(readLog, ReadCall)
    /\ ReaderExit("err", <<"failed to read stdin", "EINTR">>)
    /\ UNCHANGED <<src, pos, bytesLen, nSent, nAckRecv,
                   dataCh, dataCap, dataRxOpen, ackCap, ackTxOpen>>
    /\ UNCHANGED <<writerLocal, sockVars, streamVars>>

\* Err(e) if e.kind() == Interrupted => continue
ReaderReadInterrupted ==
    /\ rpc = "read"
    /\ ~srcStalled
    /\ interrupts < MaxInterrupts
    /\ interrupts' = interrupts + 1
    /\ readLog' = Append(readLog, ReadCall)
    /\ UNCHANGED <<src, pos, bytesLen, send_bytes, rpc, rresult, nSent, nAckRecv>>
    /\ UNCHANGED <<dataCh, dataCap, dataTxOpen, dataRxOpen,
                   ackCh, ackCap, ackTxOpen, ackRxOpen>>
    /\ UNCHANGED <<writerLocal, sockVars, streamVars>>

\* Err(e) => return Err(eyre!(e).wrap_err("failed to read stdin"))
ReaderReadError ==
    /\ rpc = "read"
    /\ ~srcStalled
    /\ \E e \in ReadErrs : ReaderExit("err", <<"failed to read stdin", e>>)
    /\ readLog' = Append(readLog, ReadCall)
    /\ UNCHANGED <<src, pos, interrupts, bytesLen, nSent, nAckRecv,
                   dataCh, dataCap, dataRxOpen, ackCap, ackTxOpen>>
    /\ UNCHANGED <<writerLocal, sockVars, streamVars>>

\* mutant of ReaderSend: the reader goes back to read without awaiting the ack
ReaderSend_NoAckWait ==
    /\ rpc = "send"
    /\ dataRxOpen
    /\ Len(dataCh) < dataCap
    /\ dataCh' = Append(dataCh, send_bytes)
    /\ nSent' = nSent + 1
    /\ rpc' = "read"
    /\ UNCHANGED <<rresult, send_bytes, dataTxOpen, ackRxOpen, ackCh>>
    /\ UNCHANGED <<src, pos, interrupts, bytesLen, nAckRecv, readLog,
                   dataCap, dataRxOpen, ackCap, ackTxOpen>>
    /\ UNCHANGED <<writerLocal, sockVars, streamVars>>

\* mutant of ReaderSend: the await of the ack comes before the send, the
\* buffer is sent only after it
ReaderSend_AfterAck ==
    /\ rpc = "send"
    /\ rpc' = "recv_ack"
    /\ UNCHANGED <<rresult, send_bytes, dataTxOpen, ackRxOpen, ackCh, dataCh, nSent>>
    /\ UNCHANGED <<src, pos, interrupts, bytesLen, nAckRecv, readLog,
                   dataCap, dataRxOpen, ackCap, ackTxOpen>>
    /\ UNCHANGED <<writerLocal, sockVars, streamVars>>

\* mutant of ReaderSend: a closed data channel ends the reader like an end
\* of input, with Ok
ReaderSend_ClosedIsOk ==
    /\ rpc = "send"
    /\ IF ~dataRxOpen
       THEN /\ ReaderExit("done_ok", <<>>)
            /\ UNCHANGED <<dataCh, nSent>>
       ELSE /\ Len(dataCh) < dataCap
            /\ dataCh' = Append(dataCh, send_bytes)
            /\ nSent' = nSent + 1
            /\ rpc' = "recv_ack"
            /\ UNCHANGED <<rresult, send_bytes, dataTxOpen, ackRxOpen, ackCh>>
    /\ UNCHANGED <<src, pos, interrupts, bytesLen, nAckRecv, readLog,
                   dataCap, dataRxOpen, ackCap, ackTxOpen>>
    /\ UNCHANGED <<writerLocal, sockVars, streamVars>>

\* tx.send(Arc::clone(&send_bytes)).await.wrap_err("failed to send bytes")?
\* The send fails when the receiver is gone, waits while the channel is full.
ReaderSend ==
    /\ rpc = "send"
    /\ IF ~dataRxOpen
       THEN /\ ReaderExit("err", <<"failed to send bytes", "channel closed">>)
            /\ UNCHANGED <<dataCh, nSent>>
       ELSE /\ Len(dataCh) < dataCap
            /\ dataCh' = Append(dataCh, send_bytes)
            /\ nSent' = nSent + 1
            /\ rpc' = "recv_ack"
            /\ UNCHANGED <<rresult, send_bytes, dataTxOpen, ackRxOpen, ackCh>>
    /\ UNCHANGED <<src, pos, interrupts, bytesLen, nAckRecv, readLog,
                   dataCap, dataRxOpen, ackCap, ackTxOpen>>
    /\ UNCHANGED <<writerLocal, sockVars, streamVars>>

\* mutant of ReaderReclaim: the buffer taken back is dropped, not unsplit
\* into bytes, and the length is not asserted
ReaderReclaim_NoUnsplit ==
    IF TryUnwrapOk(send_bytes.id)
    THEN /\ bytesLen' = bytesLen
         /\ send_bytes' = NoBuf
         /\ rpc' = "read"
         /\ UNCHANGED <<rresult, dataTxOpen, ackRxOpen>>
    ELSE /\ rpc' = "panic"
         /\ rresult' = <<"must be un-shared">>
         /\ send_bytes' = NoBuf
         /\ dataTxOpen' = FALSE
         /\ ackRxOpen' = FALSE
         /\ UNCHANGED bytesLen

\* Arc::try_unwrap(send_bytes).expect("must be un-shared");
\* bytes.unsplit(send_bytes); assert_eq!(bytes.len(), BUFFER_SIZE)
ReaderReclaim ==
    IF TryUnwrapOk(send_bytes.id) /\ bytesLen + Len(send_bytes.data) = BUFFER_SIZE
    THEN /\ bytesLen' = bytesLen + Len(send_bytes.data)
         /\ send_bytes' = NoBuf
         /\ rpc' = "read"
         /\ UNCHANGED <<rresult, dataTxOpen, ackRxOpen>>
    ELSE /\ rpc' = "panic"
         /\ rresult' = IF TryUnwrapOk(send_bytes.id)
                       THEN <<"assertion failed">>
                       ELSE <<"must be un-shared">>
         /\ send_bytes' = NoBuf
         /\ dataTxOpen' = FALSE
         /\ ackRxOpen' = FALSE
         /\ UNCHANGED bytesLen

\* mutant of AckFailureReport: the reason of the ack is dropped
AckFailureReport_Generic(ack) == <<"failed to receive buffer">>

\* .transpose().map_err(|e| eyre!(e))?: the error made of a failure ack
AckFailureReport(ack) == <<ack.reason>>

\* mutant of ReaderRecvAck: try_recv() in place of recv().await, so that an
\* ack that has not arrived yet is skipped and the buffer space is taken back
ReaderRecvAck_TryRecv ==
    /\ rpc = "recv_ack"
    /\ IF ackCh /= <<>>
       THEN /\ nAckRecv' = nAckRecv + 1
            /\ ackCh' = Tail(ackCh)
       ELSE UNCHANGED <<nAckRecv, ackCh>>
    /\ bytesLen' = bytesLen + Len(send_bytes.data)
    /\ send_bytes' = NoBuf
    /\ rpc' = "read"
    /\ UNCHANGED <<rresult, dataTxOpen, ackRxOpen>>
    /\ UNCHANGED <<src, pos, interrupts, nSent, readLog,
                   dataCh, dataCap, dataRxOpen, ackCap, ackTxOpen>>
    /\ UNCHANGED <<writerLocal, sockVars, streamVars>>

\* mutant of ReaderRecvAck: the result carried by the ack is not looked at,
\* a failure ack lets the reader reclaim the buffer and go on
ReaderRecvAck_IgnoreFailure ==
    /\ rpc = "recv_ack"
    /\ IF ackCh /= <<>>
       THEN /\ nAckRecv' = nAckRecv + 1
            /\ ReaderReclaim
            /\ ackCh' = IF rpc' = "panic" THEN <<>> ELSE Tail(ackCh)
       ELSE /\ ~ackTxOpen
            /\ ReaderExit("err", <<"failed to receive buffer">>)
            /\ UNCHANGED <<bytesLen, nAckRecv>>
    /\ UNCHANGED <<src, pos, interrupts, nSent, readLog,
                   dataCh, dataCap, dataRxOpen, ackCap, ackTxOpen>>
    /\ UNCHANGED <<writerLocal, sockVars, streamVars>>

\* rx.recv().await.transpose().map_err(|e| eyre!(e))?
\*     .ok_or_else(|| eyre!("failed to receive buffer"))?
\* followed, without an await, by the reclaim of the buffer
ReaderRecvAck ==
    /\ rpc = "recv_ack"
    /\ IF ackCh /= <<>>
       THEN /\ nAckRecv' = nAckRecv + 1
            /\ IF Head(ackCh).ok
               THEN /\ ReaderReclaim
                    /\ ackCh' = IF rpc' = "panic" THEN <<>> ELSE Tail(ackCh)
               ELSE /\ ReaderExit("err", AckFailureReport(Head(ackCh)))
                    /\ UNCHANGED bytesLen
       ELSE /\ ~ackTxOpen
            /\ ReaderExit("err", <<"failed to receive buffer">>)
            /\ UNCHANGED <<bytesLen, nAckRecv>>
    /\ UNCHANGED <<src, pos, interrupts, nSent, readLog,
                   dataCh, dataCap, dataRxOpen, ackCap, ackTxOpen>>
    /\ UNCHANGED <<writerLocal, sockVars, streamVars>>

\* ---------------------------------------------------------------- writer
\* output() returns: its locals tx, rx and bytes drop. Dropping the data
\* receiver discards the buffers still queued.
WriterExit(state, msg) ==
    /\ wpc' = state
    /\ wresult' = msg
    /\ wbytes' = NoBuf
    /\ ackTxOpen' = FALSE
    /\ dataRxOpen' = FALSE
    /\ dataCh' = <<>>

\* while let Some(bytes) = rx.recv().await; None ends the loop: Ok(())
WriterRecv ==
    /\ wpc = "recv"
    /\ IF dataCh /= <<>>
       THEN /\ wbytes' = Head(dataCh)
            /\ dataCh' = Tail(dataCh)
            /\ nBufRecv' = nBufRecv + 1
            /\ wpc' = "write"
            /\ UNCHANGED <<wresult, ackTxOpen, dataRxOpen>>
       ELSE /\ ~dataTxOpen
            /\ WriterExit("done_ok", <<>>)
            /\ UNCHANGED nBufRecv
    /\ UNCHANGED <<wres, dest, ackLog, wioErr, dataCap, dataTxOpen,
                   ackCh, ackCap, ackRxOpen>>
    /\ UNCHANGED <<readerLocal, sockVars, streamVars>>

\* mutant of WriterWriteOk: write() in place of write_all(), a short write
\* of one byte taken for a complete one
WriterWriteOk_Short ==
    /\ wpc = "write"
    /\ ~dstStalled
    /\ dest' = dest \o SubSeq(wbytes.data, 1, 1)
    /\ wioErr' = ""
    /\ wres' = AckOk
    /\ wpc' = "send_ack"
    /\ UNCHANGED <<wbytes, wresult, nBufRecv, ackLog>>
    /\ UNCHANGED <<dataCh, dataCap, dataTxOpen, dataRxOpen,
                   ackCh, ackCap, ackTxOpen, ackRxOpen>>
    /\ UNCHANGED <<readerLocal, sockVars, streamVars>>

\* output.write_all(&bytes).await succeeds: all of the buffer is written
WriterWriteOk ==
    /\ wpc = "write"
    /\ ~dstStalled
    /\ dest' = dest \o wbytes.data
    /\ wioErr' = ""
    /\ wres' = AckOk
    /\ wpc' = "send_ack"
    /\ UNCHANGED <<wbytes, wresult, nBufRecv, ackLog>>
    /\ UNCHANGED <<dataCh, dataCap, dataTxOpen, dataRxOpen,
                   ackCh, ackCap, ackTxOpen, ackRxOpen>>
    /\ UNCHANGED <<readerLocal, sockVars, streamVars>>

\* mutant of WriterWriteErr: the write error is propagated with `?`
WriterWriteErr_Fatal ==
    /\ wpc = "write"
    /\ ~dstStalled
    /\ \E e \in WriteErrs, k \in 0..(Len(wbytes.data) - 1) :
          /\ dest' = dest \o SubSeq(wbytes.data, 1, k)
          /\ wioErr' = e
          /\ WriterExit("err", <<"failed to write bytes", e>>)
    /\ UNCHANGED <<wres, nBufRecv, ackLog>>
    /\ UNCHANGED <<dataCap, dataTxOpen, ackCh, ackCap, ackRxOpen>>
    /\ UNCHANGED <<readerLocal, sockVars, streamVars>>

\* output.write_all(&bytes).await fails after writing less than the buffer:
\* res = Err(e.to_string())
WriterWriteErr ==
    /\ wpc = "write"
    /\ ~dstStalled
    /\ \E e \in WriteErrs, k \in 0..(Len(wbytes.data) - 1) :
          /\ dest' = dest \o SubSeq(wbytes.data, 1, k)
          /\ wioErr' = e
          /\ wres' = AckErr(e)
    /\ wpc' = "send_ack"
    /\ UNCHANGED <<wbytes, wresult, nBufRecv, ackLog>>
    /\ UNCHANGED <<dataCh, dataCap, dataTxOpen, dataRxOpen,
                   ackCh, ackCap, ackTxOpen, ackRxOpen>>
    /\ UNCHANGED <<readerLocal, sockVars, streamVars>>

\* mutant of WriterSendAck: a failed write is logged and the loop continues
\* without an ack for that buffer
WriterSendAck_SkipOnError ==
    /\ wpc = "send_ack"
    /\ ackRxOpen
    /\ IF wres.ok
       THEN /\ Len(ackCh) < ackCap
            /\ ackCh' = Append(ackCh, wres)
            /\ ackLog' = Append(ackLog, wbytes.id)
       ELSE UNCHANGED <<ackCh, ackLog>>
    /\ wpc' = "end_iter"
    /\ UNCHANGED <<wbytes, wresult, ackTxOpen, dataRxOpen, dataCh>>
    /\ UNCHANGED <<wres, dest, nBufRecv, wioErr, dataCap, dataTxOpen, ackCap, ackRxOpen>>
    /\ UNCHANGED <<readerLocal, sockVars, streamVars>>

\* tx.send(res).await.wrap_err("failed to send result")?
\* `bytes` is still bound when the ack is sent.
WriterSendAck ==
    /\ wpc = "send_ack"
    /\ IF ~ackRxOpen
       THEN /\ WriterExit("err", <<"failed to send result", "channel closed">>)
            /\ UNCHANGED <<ackCh, ackLog>>
       ELSE /\ Len(ackCh) < ackCap
            /\ ackCh' = Append(ackCh, wres)
            /\ ackLog' = Append(ackLog, wbytes.id)
            /\ wpc' = "end_iter"
            /\ UNCHANGED <<wbytes, wresult, ackTxOpen, dataRxOpen, dataCh>>
    /\ UNCHANGED <<wres, dest, nBufRecv, wioErr, dataCap, dataTxOpen, ackCap, ackRxOpen>>
    /\ UNCHANGED <<readerLocal, sockVars, streamVars>>

\* the end of the loop body: `bytes` goes out of scope, its Arc is released
WriterDropBytes ==
    /\ wpc = "end_iter"
    /\ wbytes' = NoBuf
    /\ wpc' = "recv"
    /\ UNCHANGED <<wres, wresult, dest, nBufRecv, ackLog, wioErr>>
    /\ UNCHANGED <<dataCh, dataCap, dataTxOpen, dataRxOpen,
                   ackCh, ackCap, ackTxOpen, ackRxOpen>>
    /\ UNCHANGED <<readerLocal, sockVars, streamVars>>

\* ---------------------------------------------------------- cancellation
\* The orchestrator tears a pump down: the task's future is dropped at one
\* of its await points, and with it the pump's channel endpoints and locals.
CancelReader ==
    /\ rpc \in {"read", "send", "recv_ack"}
    /\ ReaderExit("cancelled", <<>>)
    /\ UNCHANGED <<src, pos, interrupts, bytesLen, nSent, nAckRecv, readLog,
                   dataCh, dataCap, dataRxOpen, ackCap, ackTxOpen>>
    /\ UNCHANGED <<writerLocal, sockVars, streamVars>>

CancelWriter ==
    /\ wpc \in {"recv", "write", "send_ack"}
    /\ WriterExit("cancelled", <<>>)
    /\ UNCHANGED <<wres, dest, nBufRecv, ackLog, wioErr,
                   dataCap, dataTxOpen, ackCh, ackCap, ackRxOpen>>
    /\ UNCHANGED <<readerLocal, sockVars, streamVars>>

\* input.read(&mut bytes).await stays pending: the source has no data, no
\* end of input and no error to give
SourceStalls ==
    /\ ~srcStalled
    /\ srcStalled' = TRUE
    /\ UNCHANGED <<readerLocal, writerLocal, sockVars, dstStalled, srcChunk>>
    /\ UNCHANGED <<dataCh, dataCap, dataTxOpen, dataRxOpen,
                   ackCh, ackCap, ackTxOpen, ackRxOpen>>

\* output.write_all(&bytes).await stays pending: the destination takes no
\* more bytes
DestStalls ==
    /\ ~dstStalled
    /\ dstStalled' = TRUE
    /\ UNCHANGED <<readerLocal, writerLocal, sockVars, srcStalled, srcChunk>>
    /\ UNCHANGED <<dataCh, dataCap, dataTxOpen, dataRxOpen,
                   ackCh, ackCap, ackTxOpen, ackRxOpen>>

\* ------------------------------------------------------- bind and connect
\* most candidates a resolution yields
MaxCands == 3

ResolveErrs == {"EAI_NONAME"}
AttemptErrs == {"ECONNREFUSED", "EACCES"}

\* the text of a socket path and of an ip:port address
PathText == <<"/", "s">>
InetText == <<"1", ":", "9">>

\* A candidate SocketAddr: its variant, whether as_pathname() is Some, the
\* pathname (or, for Inet, the ip:port text) and what the operating system
\* answers when the operation is attempted on it.
Candidates ==
    {[kind |-> k, named |-> TRUE, name |-> PathText, res |-> r] :
        k \in {"UnixStd", "UnixTokio"}, r \in {"ok"} \cup AttemptErrs}
    \cup {[kind |-> "Inet", named |-> TRUE, name |-> InetText, res |-> r] :
        r \in {"ok"} \cup AttemptErrs}
    \cup {[kind |-> k, named |-> FALSE, name |-> <<>>, res |-> "ok"] :
        k \in {"UnixStd", "UnixTokio"}}

\* what addrs.to_socket_addrs().await can return
Resolutions ==
    {[ok |-> FALSE, err |-> IoError(e), cands |-> <<>>] : e \in ResolveErrs}
    \cup {[ok |-> TRUE, err |-> NoError, cands |-> c] : c \in SeqsUpTo(Candidates, MaxCands)}

SockInit ==
    /\ PumpInit
    /\ src = <<>>
    /\ dataCap = 1
    /\ ackCap = 1
    /\ sop \in {"bind", "connect"}
    /\ resolved \in Resolutions
    /\ sidx = 0
    /\ last_err = <<>>
    /\ spc = "resolve"
    /\ sresult = NoResult
    /\ attempts = <<>>
    /\ specStr = <<>>
    /\ lookups = <<>>
    /\ peer = NoAddr
    /\ shown = <<>>

\* io::Error::new(io::ErrorKind::InvalidInput, "could not resolve to any address")
NoAddressError == [kind |-> "InvalidInput", msg |-> "could not resolve to any address"]

\* let mut last_err = None; addrs.to_socket_addrs().await?
Resolve(op) ==
    /\ sop = op
    /\ spc = "resolve"
    /\ IF resolved.ok
       THEN /\ spc' = "loop"
            /\ sresult' = sresult
       ELSE /\ spc' = "returned"
            /\ sresult' = [ok |-> FALSE, via |-> 0, err |-> resolved.err]
    /\ UNCHANGED <<sop, resolved, sidx, last_err, attempts, strVars>>
    /\ UNCHANGED pumpVars

\* as_pathname().expect("abstract socket not supported") of a Unix candidate
HasPath(cand) == cand.kind = "Inet" \/ cand.named

\* mutant of AfterAttempt: the first failure is returned at once (`?`)
AfterAttempt_FailFast(i, res) ==
    /\ spc' = "returned"
    /\ sresult' = IF res = "ok"
                  THEN [ok |-> TRUE, via |-> i, err |-> NoError]
                  ELSE [ok |-> FALSE, via |-> 0, err |-> IoError(res)]
    /\ UNCHANGED <<sidx, last_err>>

\* mutant of AfterAttempt: last_err keeps the first error (get_or_insert)
AfterAttempt_KeepFirstError(i, res) ==
    IF res = "ok"
    THEN /\ spc' = "returned"
         /\ sresult' = [ok |-> TRUE, via |-> i, err |-> NoError]
         /\ UNCHANGED <<sidx, last_err>>
    ELSE /\ last_err' = IF last_err = <<>> THEN <<IoError(res)>> ELSE last_err
         /\ sidx' = i
         /\ UNCHANGED <<spc, sresult>>

\* match res { Ok(x) => return Ok(x), Err(e) => last_err = Some(e) }
AfterAttempt(i, res) ==
    IF res = "ok"
    THEN /\ spc' = "returned"
         /\ sresult' = [ok |-> TRUE, via |-> i, err |-> NoError]
         /\ UNCHANGED <<sidx, last_err>>
    ELSE /\ last_err' = <<IoError(res)>>
         /\ sidx' = i
         /\ UNCHANGED <<spc, sresult>>

\* one iteration of `for addr in ...`: the operation is attempted on the
\* next candidate
Attempt(op) ==
    /\ sop = op
    /\ spc = "loop"
    /\ sidx < Len(resolved.cands)
    /\ LET i == sidx + 1
           cand == resolved.cands[i]
       IN  IF HasPath(cand)
           THEN /\ attempts' = Append(attempts, i)
                /\ AfterAttempt(i, cand.res)
           ELSE /\ spc' = "panic"
                /\ UNCHANGED <<sidx, last_err, sresult, attempts>>
    /\ UNCHANGED <<sop, resolved, strVars>>
    /\ UNCHANGED pumpVars

\* the iterator is exhausted: Err(last_err.unwrap_or_else(|| ...))
Exhausted(op) ==
    /\ sop = op
    /\ spc = "loop"
    /\ sidx = Len(resolved.cands)
    /\ spc' = "returned"
    /\ sresult' = [ok |-> FALSE, via |-> 0,
                   err |-> IF last_err = <<>> THEN NoAddressError ELSE last_err[1]]
    /\ UNCHANGED <<sop, resolved, sidx, last_err, attempts, strVars>>
    /\ UNCHANGED pumpVars

BindResolve == Resolve("bind")
BindAttempt == Attempt("bind")
BindExhausted == Exhausted("bind")
ConnectResolve == Resolve("connect")
ConnectAttempt == Attempt("connect")
ConnectExhausted == Exhausted("connect")

\* --------------------------------------------- to_socket_addrs for str
\* longest text after the optional prefix of a spec string
MaxSpecLen == 2

UnixPrefix == <<"u", "n", "i", "x", ":">>

\* size of sockaddr_un.sun_path
SUN_LEN == 108

\* the pieces of the text: a path separator, a letter, the mark of the
\* abstract-socket syntax, the NUL character, and a run of SUN_LEN letters
SpecChars == {"/", "h", "@", "NUL", "h*108"}

\* number of bytes of a text
RECURSIVE ByteLen(_)
ByteLen(str) ==
    IF str = <<>> THEN 0
    ELSE (IF Head(str) = "h*108" THEN SUN_LEN ELSE 1) + ByteLen(Tail(str))

\* the spec strings given to bind() and connect()
SpecStrings ==
    {p \o r : p \in {<<>>, UnixPrefix, <<"u", "n", "i", "x">>},
              r \in SeqsUpTo(SpecChars, MaxSpecLen)}

\* str::strip_prefix: Some(rest) as <<rest>>, None as <<>>
StripPrefix(str, prefix) ==
    IF Len(str) >= Len(prefix) /\ SubSeq(str, 1, Len(prefix)) = prefix
    THEN <<SubSeq(str, Len(prefix) + 1, Len(str))>>
    ELSE <<>>

\* str::contains(char)
Contains(str, c) == \E i \in 1..Len(str) : str[i] = c

\* only the prefix selects the Unix form
UnixAddr_PrefixOnly(str) == StripPrefix(str, UnixPrefix)

\* self.strip_prefix("unix:").or_else(|| self.contains('/').then(|| self))
UnixAddr(str) ==
    IF StripPrefix(str, UnixPrefix) /= <<>>
    THEN StripPrefix(str, UnixPrefix)
    ELSE IF Contains(str, "/") THEN <<str>> ELSE <<>>

\* std::os::unix::net::SocketAddr::from_pathname(addr)?: an error for a path
\* with a NUL byte or one that does not fit sun_path; the address of the
\* empty path has no pathname
FromPathname(path, res) ==
    IF Contains(path, "NUL")
    THEN [ok |-> FALSE,
          err |-> [kind |-> "InvalidInput",
                   msg |-> "paths must not contain interior null bytes"],
          cands |-> <<>>]
    ELSE IF ByteLen(path) >= SUN_LEN
    THEN [ok |-> FALSE,
          err |-> [kind |-> "InvalidInput",
                   msg |-> "path must be shorter than SUN_LEN"],
          cands |-> <<>>]
    ELSE [ok |-> TRUE, err |-> NoError,
          cands |-> <<[kind |-> "UnixStd", named |-> path /= <<>>,
                       name |-> path, res |-> res]>>]

\* what net::lookup_host(self).await? and addrs.map(Into::into) can give
LookupResults ==
    {[ok |-> FALSE, err |-> IoError(e), cands |-> <<>>] : e \in ResolveErrs}
    \cup {[ok |-> TRUE, err |-> NoError, cands |-> c] :
            c \in SeqsUpTo({[kind |-> "Inet", named |-> TRUE, name |-> InetText,
                             res |-> r] : r \in {"ok"} \cup AttemptErrs}, MaxCands)}

\* <str as ToSocketAddrs>::to_socket_addrs
StrToSocketAddrs ==
    /\ spc = "to_socket_addrs"
    /\ IF UnixAddr(specStr) /= <<>>
       THEN /\ \E r \in {"ok"} \cup AttemptErrs :
                  resolved' = FromPathname(UnixAddr(specStr)[1], r)
            /\ lookups' = lookups
       ELSE /\ lookups' = Append(lookups, specStr)
            /\ resolved' \in LookupResults
    /\ spc' = "resolve"
    /\ UNCHANGED <<sop, sidx, last_err, sresult, attempts, specStr, peer, shown>>
    /\ UNCHANGED pumpVars

\* ------------------------------------------------------ accept, Display
AcceptErrs == {"EMFILE"}

\* the peer addresses a listener's accept() yields: a Unix peer with or
\* without a pathname (net::unix::SocketAddr), a TCP peer
UnixPeers ==
    {[kind |-> "UnixTokio", named |-> TRUE, name |-> PathText, res |-> "ok"],
     [kind |-> "UnixTokio", named |-> FALSE, name |-> <<>>, res |-> "ok"]}
TcpPeers == {[kind |-> "Inet", named |-> TRUE, name |-> InetText, res |-> "ok"]}

\* the variant of the SocketListener that bind() returned
ListenerKind ==
    IF resolved.cands[sresult.via].kind = "Inet" THEN "Tcp" ELSE "Unix"

\* SocketListener::accept
Accept ==
    /\ sop = "bind"
    /\ spc = "returned"
    /\ sresult.ok
    /\ \/ /\ peer' \in (IF ListenerKind = "Unix" THEN UnixPeers ELSE TcpPeers)
          /\ spc' = "accepted"
          /\ UNCHANGED sresult
       \/ /\ \E e \in AcceptErrs :
                sresult' = [ok |-> FALSE, via |-> sresult.via, err |-> IoError(e)]
          /\ spc' = "accept_failed"
          /\ UNCHANGED peer
    /\ UNCHANGED <<sop, resolved, sidx, last_err, attempts, specStr, lookups, shown>>
    /\ UNCHANGED pumpVars

\* <SocketAddr as Display>::fmt: the text, or unimplemented!()
Display(addr) ==
    IF addr.kind = "Inet"
    THEN [ok |-> TRUE, text |-> addr.name]
    ELSE IF addr.named
         THEN [ok |-> TRUE, text |-> UnixPrefix \o addr.name]
         ELSE [ok |-> FALSE, text |-> <<>>]

\* the accepted peer's address is formatted
DisplayPeer ==
    /\ spc = "accepted"
    /\ IF Display(peer).ok
       THEN /\ shown' = Display(peer).text
            /\ spc' = "displayed"
       ELSE /\ shown' = shown
            /\ spc' = "panic_display"
    /\ UNCHANGED <<sop, resolved, sidx, last_err, sresult, attempts,
                   specStr, lookups, peer>>
    /\ UNCHANGED pumpVars

\* bind(spec) or connect(spec) of a spec string is called
StrInit ==
    /\ PumpInit
    /\ src = <<>>
    /\ dataCap = 1
    /\ ackCap = 1
    /\ sop \in {"bind", "connect"}
    /\ specStr \in SpecStrings
    /\ resolved = [ok |-> TRUE, err |-> NoError, cands |-> <<>>]
    /\ sidx = 0
    /\ last_err = <<>>
    /\ spc = "to_socket_addrs"
    /\ sresult = NoResult
    /\ attempts = <<>>
    /\ lookups = <<>>
    /\ peer = NoAddr
    /\ shown = <<>>

\* ------------------------------------------------------------------ Next
ReaderStep ==
    \/ ReaderReadEof
    \/ ReaderReadData
    \/ ReaderReadInterrupted
    \/ ReaderReadError
    \/ ReaderSend
    \/ ReaderRecvAck

WriterStep ==
    \/ WriterRecv
    \/ WriterWriteOk
    \/ WriterWriteErr
    \/ WriterSendAck
    \/ WriterDropBytes

Next == ReaderStep \/ WriterStep

\* the two pumps of one direction, left alone
Spec == Init /\ [][Next]_vars

\* the tokio runtime polls every task that can make progress
FairSpec == Spec /\ WF_vars(ReaderStep) /\ WF_vars(WriterStep)

\* the two pumps, either of which the orchestrator may tear down
CancelNext == Next \/ CancelReader \/ CancelWriter

CancelSpec == Init /\ [][CancelNext]_vars

\* the two pumps with teardown, on streams that may stop responding
StallNext == CancelNext \/ SourceStalls \/ DestStalls

StallSpec == Init /\ [][StallNext]_vars

\* sources as long as the buffer, one byte less and one byte more, handed
\* out in pieces of half a buffer, a buffer less one byte, or a buffer
SourceSizes == {0, 1, BUFFER_SIZE - 1, BUFFER_SIZE, BUFFER_SIZE + 1}
ChunkSizes == {BUFFER_SIZE \div 2, BUFFER_SIZE - 1, BUFFER_SIZE}

SizeInit ==
    /\ src \in {[i \in 1..n |-> i % 2] : n \in SourceSizes}
    /\ srcChunk \in ChunkSizes
    /\ PumpStart
    /\ SockIdle

\* the pair on a destination whose writes succeed
SizeNext ==
    \/ ReaderStep
    \/ WriterRecv
    \/ WriterWriteOk
    \/ WriterSendAck
    \/ WriterDropBytes

SizeSpec == SizeInit /\ [][SizeNext]_vars

\* one call of SocketListener::bind or SocketStream::connect
SockNext ==
    \/ BindResolve
    \/ BindAttempt
    \/ BindExhausted
    \/ ConnectResolve
    \/ ConnectAttempt
    \/ ConnectExhausted

SockSpec == SockInit /\ [][SockNext]_vars

\* bind or connect of a spec string, then accept on the listener and the
\* display of the peer address
StrNext == StrToSocketAddrs \/ SockNext \/ Accept \/ DisplayPeer

StrSpec == StrInit /\ [][StrNext]_vars

\* ---------------------------------------------------------------- claims
\* buffers the writer holds: its binding `bytes`
WriterHeld == IF wbytes = NoBuf THEN 0 ELSE 1

\* C1: at most one buffer is unacknowledged: the buffers the reader sent
\* minus the acks it received is 0 or 1, and the buffers queued in the data
\* channel plus those the writer holds never exceed 1, whatever the capacity.
C1_SingleCredit ==
    /\ nSent - nAckRecv \in {0, 1}
    /\ Len(dataCh) + WriterHeld <= 1

\* a second buffer is in flight in a data channel of capacity 2
C1_Witness ==
    /\ dataCap = 2
    /\ nSent = 2
    /\ nAckRecv = 1
    /\ Len(dataCh) = 1

\* C2: the sole-ownership check of the reclaim never fails: the reader never
\* panics with "must be un-shared".
C2_NeverShared == ~(rpc = "panic" /\ rresult = <<"must be un-shared">>)

\* C3: every read of the source is issued with every buffer sent so far
\* acknowledged: one ack was received between a send and the next read.
C3_NoReadBeforeAck ==
    /\ rpc = "read" => nSent = nAckRecv
    /\ \A i \in 1..Len(readLog) : readLog[i].sent = readLog[i].acked
    /\ \A i \in 1..Len(readLog) - 1 :
          readLog[i + 1].acked - readLog[i].acked
              = readLog[i + 1].sent - readLog[i].sent

\* with capacity 1 a second read was issued, after the first buffer's ack
C3_Witness ==
    /\ dataCap = 1
    /\ ackCap = 1
    /\ Len(readLog) >= 2
    /\ readLog[Len(readLog)].sent = 1
    /\ readLog[Len(readLog)].acked = 1

\* C4: the bytes written to the destination are a prefix of the bytes read
\* from the source, and are all of the source once the reader has returned
\* at end of file and the writer has returned.
C4_RoundTrip ==
    /\ IsPrefix(dest, SubSeq(src, 1, pos))
    /\ (rpc = "done_ok" /\ wpc = "done_ok") => dest = src

\* a source of several bytes went through in more than one buffer
C4_Witness ==
    /\ rpc = "done_ok"
    /\ wpc = "done_ok"
    /\ Len(src) >= 2
    /\ nSent >= 2
    /\ dest = src

\* C5: one ack per buffer: the k-th ack the writer sends is for the k-th
\* buffer it received, the writer has acked every buffer it received but the
\* one it is working on, acks never outnumber buffers sent, and the counts
\* are equal whenever the reader is not waiting for an ack.
C5_OneAckPerBuffer ==
    /\ \A k \in 1..Len(ackLog) : ackLog[k] = k
    /\ Len(ackLog) = IF wpc \in {"write", "send_ack"} THEN nBufRecv - 1 ELSE nBufRecv
    /\ nBufRecv <= nSent
    /\ Len(ackLog) <= nSent
    /\ rpc /= "recv_ack" => Len(ackLog) = nSent

\* two buffers were acked, the second with a failure
C5_Witness ==
    /\ ackLog = <<1, 2>>
    /\ nSent = 2
    /\ ~wres.ok

\* C6: after a zero-length read the reader has returned Ok and stays so,
\* sending nothing further, and the writer then eventually returns Ok.
C6_EofTerminatesBoth ==
    /\ [][rpc = "done_ok" => /\ rpc' = "done_ok"
                             /\ rresult' = <<>>
                             /\ nSent' = nSent
                             /\ Len(dataCh') <= Len(dataCh)]_vars
    /\ (rpc = "done_ok") ~> (wpc = "done_ok" /\ wresult = <<>>)

\* both pumps returned Ok after at least one buffer went through
C6_Witness ==
    /\ rpc = "done_ok"
    /\ wpc = "done_ok"
    /\ nSent >= 1
    /\ ~dataTxOpen

\* the reader's step that receives a failure ack
RecvFailureAck ==
    /\ rpc = "recv_ack"
    /\ ackCh /= <<>>
    /\ ~Head(ackCh).ok
    /\ rpc' /= rpc

\* C7: receiving a failure ack with reason r ends the reader with an error
\* whose message contains r, without reclaiming the buffer, and the reader
\* then reads and sends nothing more.
C7_FailureAckFatal ==
    [][/\ RecvFailureAck =>
            /\ rpc' = "err"
            /\ \E i \in 1..Len(rresult') : rresult'[i] = Head(ackCh).reason
            /\ UNCHANGED <<bytesLen, pos, nSent, readLog>>
       /\ rpc = "err" =>
            UNCHANGED <<rpc, rresult, bytesLen, pos, nSent, readLog, send_bytes>>
      ]_vars

\* the second buffer's write failed and the reader ended with that reason
C7_Witness ==
    /\ rpc = "err"
    /\ nAckRecv = 2
    /\ rresult = <<"ENOSPC">>
    /\ bytesLen < BUFFER_SIZE

\* C8: a failed write does not end the writer: it goes on to send a failure
\* ack with the error text and then back to receive; the writer ends with an
\* error only from a failed ack send, and with Ok only on a closed and
\* drained data channel. (A cancelled writer has no result.)
C8_WriteFailureNotTerminal ==
    [][/\ (wpc = "write" /\ wpc' \notin {"write", "cancelled"}) =>
            /\ wpc' = "send_ack"
            /\ wres' = IF wioErr' = "" THEN AckOk ELSE AckErr(wioErr')
       /\ (wpc = "send_ack" /\ wpc' \notin {"send_ack", "cancelled"}) =>
            IF ackRxOpen
            THEN wpc' = "end_iter" /\ ackCh' = Append(ackCh, wres)
            ELSE wpc' = "err"
       /\ (wpc = "end_iter" /\ wpc' /= "end_iter") => wpc' = "recv"
       /\ (wpc /= "err" /\ wpc' = "err") =>
            /\ wpc = "send_ack"
            /\ ~ackRxOpen
            /\ wresult'[1] = "failed to send result"
       /\ (wpc /= "done_ok" /\ wpc' = "done_ok") =>
            /\ wpc = "recv"
            /\ dataCh = <<>>
            /\ ~dataTxOpen
            /\ wresult' = <<>>
      ]_vars

\* the writer is back at receive after acking a failed write
C8_Witness ==
    /\ wpc = "recv"
    /\ wioErr /= ""
    /\ nBufRecv >= 1
    /\ Len(ackLog) = nBufRecv

\* the candidates of the running bind() or connect()
Cands == resolved.cands

Failed(i) == Cands[i].res /= "ok"

\* C9: candidates are attempted in resolution order, each at most once and
\* none after a success; a returned Ok is the first candidate whose attempt
\* succeeds, and when there is one the call does not return an error.
C9_FirstSuccessInOrder ==
    /\ \A k \in 1..Len(attempts) : attempts[k] = k
    /\ \A k \in 1..Len(attempts) - 1 : Failed(attempts[k])
    /\ Len(attempts) <= Len(Cands)
    /\ (spc = "returned" /\ sresult.ok) =>
            /\ sresult.via = Len(attempts)
            /\ ~Failed(sresult.via)
            /\ \A j \in 1..sresult.via - 1 : Failed(j)
    /\ (spc = "returned" /\ resolved.ok /\ \E j \in 1..Len(Cands) : ~Failed(j)) =>
            sresult.ok

\* [bad, bad, good]: the third candidate is returned after attempts 1, 2, 3
C9_Witness ==
    /\ spc = "returned"
    /\ Len(Cands) = 3
    /\ Failed(1) /\ Failed(2) /\ ~Failed(3)
    /\ attempts = <<1, 2, 3>>
    /\ sresult.ok
    /\ sresult.via = 3

AllFailed == \A j \in 1..Len(Cands) : HasPath(Cands[j]) /\ Failed(j)

\* C10: a call that returns after every candidate failed returns the last
\* candidate's error; with zero candidates it returns the InvalidInput error
\* "could not resolve to any address"; a failed resolution is returned as it
\* is, and no candidate is ever attempted after it.
C10_ErrorReturned ==
    /\ ~resolved.ok => attempts = <<>>
    /\ (spc = "returned" /\ ~resolved.ok) =>
            sresult = [ok |-> FALSE, via |-> 0, err |-> resolved.err]
    /\ (spc = "returned" /\ resolved.ok /\ Len(Cands) = 0) =>
            /\ ~sresult.ok
            /\ sresult.err.kind = "InvalidInput"
            /\ sresult.err.msg = "could not resolve to any address"
    /\ (spc = "returned" /\ resolved.ok /\ Len(Cands) > 0 /\ AllFailed) =>
            /\ ~sresult.ok
            /\ sresult.err = IoError(Cands[Len(Cands)].res)
            /\ Len(attempts) = Len(Cands)

\* two candidates failed with different errors and the call has returned
C10_Witness ==
    /\ spc = "returned"
    /\ Len(Cands) = 2
    /\ AllFailed
    /\ Cands[1].res /= Cands[2].res
    /\ sresult.err = IoError(Cands[2].res)

\* ------------------------------------------------------------------ C11
\* C11: a path-less (abstract) Unix address that reaches resolve, bind,
\* connect or display never aborts the process, and a spec string in the
\* abstract-socket syntax "@name" is never handed to the host name lookup.
C11_AbstractRejected ==
    /\ spc \notin {"panic", "panic_display"}
    /\ \A i \in 1..Len(lookups) :
          ~(lookups[i] /= <<>> /\ Head(lookups[i]) = "@")

\* ------------------------------------------------------------------ C12
\* the spec string has the Unix form
UnixForm == IsPrefix(UnixPrefix, specStr) \/ \E i \in 1..Len(specStr) : specStr[i] = "/"

\* the text after the prefix when it is present, otherwise the whole string
UnixText ==
    IF IsPrefix(UnixPrefix, specStr)
    THEN [i \in 1..(Len(specStr) - 5) |-> specStr[i + 5]]
    ELSE specStr

InetOnly ==
    /\ lookups = <<specStr>>
    /\ resolved.ok => \A i \in 1..Len(resolved.cands) : resolved.cands[i].kind = "Inet"

\* C12 as stated: every spec string of the Unix form resolves to exactly one
\* Unix endpoint whose path is the text, with no name lookup; every other
\* string is looked up and yields only Inet endpoints.
C12_AsStated ==
    spc /= "to_socket_addrs" =>
        IF UnixForm
        THEN /\ lookups = <<>>
             /\ resolved.ok
             /\ Len(resolved.cands) = 1
             /\ resolved.cands[1].kind \in {"UnixStd", "UnixTokio"}
             /\ resolved.cands[1].named
             /\ resolved.cands[1].name = UnixText
        ELSE InetOnly

\* the text is a path that a Unix address can hold
PathFits == (\A i \in 1..Len(UnixText) : UnixText[i] /= "NUL") /\ ByteLen(UnixText) < SUN_LEN

\* C12 (amended): a spec string of the Unix form is never looked up; when its
\* text has no NUL byte and fits sun_path it resolves to exactly one Unix
\* endpoint, whose path is the text, or which has no path when the text is
\* empty; otherwise resolution fails with an invalid-input error. Every other
\* string is handed whole to the name lookup and yields only Inet endpoints.
C12_Resolution ==
    spc /= "to_socket_addrs" =>
        IF UnixForm
        THEN /\ lookups = <<>>
             /\ IF PathFits
                THEN /\ resolved.ok
                     /\ Len(resolved.cands) = 1
                     /\ resolved.cands[1].kind \in {"UnixStd", "UnixTokio"}
                     /\ resolved.cands[1].named = (UnixText /= <<>>)
                     /\ resolved.cands[1].name = UnixText
                ELSE /\ ~resolved.ok
                     /\ resolved.err.kind = "InvalidInput"
                     /\ resolved.cands = <<>>
        ELSE InetOnly

\* a string without the prefix but with a separator has been resolved to the
\* Unix endpoint of the whole string
C12_Witness ==
    /\ spc = "resolve"
    /\ ~IsPrefix(UnixPrefix, specStr)
    /\ specStr = <<"h", "/">>
    /\ resolved.ok
    /\ resolved.cands[1].name = specStr
    /\ lookups = <<>>

\* ------------------------------------------------------------------ C13
\* C13: a path-less Unix peer returned by accept() is representable: showing
\* it in the canonical display form does not abort.
C13_PathlessPeerShown ==
    (sop = "bind" /\ peer /= NoAddr /\ ~peer.named) => spc /= "panic_display"

\* ------------------------------------------------------------------ C14
\* C14: after a write failure at the writer, under fair scheduling the reader
\* eventually ends with an error and the writer eventually ends with Ok on
\* the closed data channel; from the failure on no read of the source is
\* issued, and both stay ended.
C14_WriteFailureHalts ==
    /\ (wioErr /= "") ~> (rpc = "err" /\ wpc = "done_ok")
    /\ [][/\ wioErr /= "" => readLog' = readLog
          /\ (wioErr /= "" /\ rpc = "err") => rpc' = "err"
          /\ (wioErr /= "" /\ wpc = "done_ok") => wpc' = "done_ok"
         ]_vars

\* the second write failed after part of the buffer was written, the reader
\* ended with that reason and the writer ended with Ok
C14_Witness ==
    /\ wioErr = "EPIPE"
    /\ nBufRecv = 2
    /\ rpc = "err"
    /\ rresult = <<"EPIPE">>
    /\ wpc = "done_ok"
    /\ wresult = <<>>

\* ------------------------------------------------------------------ C15
\* C15: a send on a data channel whose receiver is gone, and an ack channel
\* that closes without the awaited ack, each end the reader with an error;
\* the reader ends with Ok exactly on a zero-length read; an ended reader
\* keeps its result. (A cancelled reader has no result.)
C15_ClosureFatal ==
    [][/\ (rpc = "send" /\ ~dataRxOpen /\ rpc' \notin {"send", "cancelled"}) =>
            /\ rpc' = "err"
            /\ rresult'[1] = "failed to send bytes"
       /\ (rpc = "recv_ack" /\ ackCh = <<>> /\ ~ackTxOpen
             /\ rpc' \notin {"recv_ack", "cancelled"}) =>
            /\ rpc' = "err"
            /\ rresult' = <<"failed to receive buffer">>
       /\ (rpc /= "done_ok" /\ rpc' = "done_ok") =>
            /\ rpc = "read"
            /\ Len(readLog') = Len(readLog) + 1
            /\ pos' = pos
            /\ nSent' = nSent
            /\ rresult' = <<>>
       /\ (rpc = "read" /\ Len(readLog') > Len(readLog) /\ pos' = pos
             /\ interrupts' = interrupts /\ rresult' = <<>>) =>
            rpc' = "done_ok"
       /\ rpc \in {"err", "done_ok"} => (rpc' = rpc /\ rresult' = rresult)
      ]_vars

\* the writer went away while the reader waited for its second ack, and the
\* reader ended with the error of the closed ack channel
C15_Witness ==
    /\ rpc = "err"
    /\ rresult = <<"failed to receive buffer">>
    /\ wpc = "cancelled"
    /\ nSent = 2
    /\ nAckRecv = 1

\* ------------------------------------------------------------------ C16
\* C16: an interrupted read changes nothing of the reader but the count of
\* read calls: nothing is sent, no ack is taken, the buffer keeps its full
\* length, and the reader's next step is a read call again; any other read
\* error ends the reader with the error "failed to read stdin" and puts
\* nothing into the data channel.
C16_InterruptedRetries ==
    [][/\ interrupts' > interrupts =>
            /\ rpc = "read"
            /\ rpc' = "read"
            /\ bytesLen' = BUFFER_SIZE
            /\ Len(readLog') = Len(readLog) + 1
            /\ UNCHANGED <<pos, bytesLen, send_bytes, rresult, nSent, nAckRecv,
                           dataCh, dataTxOpen, ackCh, ackRxOpen>>
       /\ (rpc = "read" /\ <<rpc, pos, interrupts, rresult>>' /= <<rpc, pos, interrupts, rresult>>) =>
            Len(readLog') = Len(readLog) + 1
       /\ (rpc = "read" /\ rpc' = "err") =>
            /\ rresult'[1] = "failed to read stdin"
            /\ rresult'[2] \in ReadErrs
            /\ UNCHANGED <<dataCh, nSent, pos>>
      ]_vars

\* the read after the first acked buffer was interrupted, and the reader is
\* at read again
C16_Witness ==
    /\ rpc = "read"
    /\ interrupts = 1
    /\ readLog = <<[sent |-> 0, acked |-> 0, len |-> BUFFER_SIZE],
                   [sent |-> 1, acked |-> 1, len |-> BUFFER_SIZE]>>
    /\ dataCh = <<>>

\* ------------------------------------------------------------------ C17
ReaderRunning == rpc \in {"read", "send", "recv_ack"}
WriterRunning == wpc \in {"recv", "write", "send_ack", "end_iter"}

\* C17: once the peer pump is gone, the remaining pump is never left blocked:
\* it has ended, or it has a step to take towards its end; and an ended pump
\* reads, writes, sends and reuses nothing more.
C17_Unwinds ==
    /\ (~WriterRunning /\ ReaderRunning) => ENABLED ReaderStep
    /\ (~ReaderRunning /\ WriterRunning) => ENABLED WriterStep
    /\ ~ReaderRunning => ~ENABLED ReaderStep
    /\ ~WriterRunning => ~ENABLED WriterStep

\* ------------------------------------------------------------------ C18
\* the buffers the pair holds: in the reader, in the channel, in the writer
Buffers ==
    {send_bytes, wbytes} \cup {dataCh[i] : i \in 1..Len(dataCh)}

\* C18: every read is issued on a buffer of BUFFER_SIZE bytes; every Buffer
\* holds the n bytes just read, 1 <= n <= BUFFER_SIZE; the reusable buffer
\* and the Buffer in flight add up to BUFFER_SIZE, so that the buffer is
\* BUFFER_SIZE long again after the reclaim and the assertion does not fail.
C18_BufferSize ==
    /\ \A i \in 1..Len(readLog) : readLog[i].len = BUFFER_SIZE
    /\ rpc = "read" => bytesLen = BUFFER_SIZE
    /\ \A b \in Buffers \ {NoBuf} : Len(b.data) \in 1..BUFFER_SIZE
    /\ send_bytes /= NoBuf =>
          /\ bytesLen + Len(send_bytes.data) = BUFFER_SIZE
          /\ send_bytes.data = SubSeq(src, pos - Len(send_bytes.data) + 1, pos)
    /\ rresult /= <<"assertion failed">>

\* a Buffer of BUFFER_SIZE bytes, the whole reusable buffer, was sent and
\* taken back, and a second Buffer of one byte is on its way
C18_Witness ==
    /\ Len(src) = BUFFER_SIZE + 1
    /\ srcChunk = BUFFER_SIZE
    /\ nAckRecv = 1
    /\ Len(readLog) = 2
    /\ Len(send_bytes.data) = 1
    /\ bytesLen = BUFFER_SIZE - 1

\* ------------------------------------------------------------------ C19
\* C19: the pair never deadlocks on its channels: in no reachable state are
\* both pumps running, the reader at its send or its ack receive, the writer
\* at its receive or its ack send, and neither able to take a step.
C19_NoChannelDeadlock ==
    ~ /\ rpc \in {"send", "recv_ack"}
      /\ wpc \in {"recv", "send_ack"}
      /\ ~ENABLED ReaderStep
      /\ ~ENABLED WriterStep

\* the reader is blocked waiting for the ack of its second buffer while the
\* writer is about to send it
C19_Witness ==
    /\ rpc = "recv_ack"
    /\ wpc = "send_ack"
    /\ nSent = 2
    /\ ackCh = <<>>
    /\ ~ENABLED ReaderStep
    /\ ENABLED WriterStep

====
